---- MODULE Spec2Model ----
(***************************************************************************)
(* Model of facial_isolation_module.py: create_path, get_min_max_rgb,      *)
(* mask_face_region and face_color_filter.                                 *)
(*                                                                         *)
(* Each function is a sequential program over its own variables:           *)
(*   SpecPath    one call of create_path                                   *)
(*   SpecScan    one call of get_min_max_rgb                               *)
(*   SpecMask    one call of mask_face_region                              *)
(*   SpecFilter  one call of face_color_filter                             *)
(*   SpecVideo   one call of mask_face_region or face_color_filter         *)
(*   SpecCalls   one call of any of the three functions that read videos   *)
(* The variables of the functions that are not called keep idle values.    *)
(*                                                                         *)
(* The face landmark detector, the video decoder and cv.fillConvexPoly are *)
(* external: a frame, whether it shows a face, and the filled region masks *)
(* are inputs drawn when the frame is read.                                *)
(***************************************************************************)
EXTENDS Integers, Sequences, FiniteSets, TLC

VARIABLES
    \* create_path
    landmark_set, routes, p1, p2, path_i, path_pc,
    \* get_min_max_rgb
    focusColor, video, frames_read, scanned, capture,
    min_val, max_val, min_color, max_color, scan_pc,
    \* mask_face_region and face_color_filter: arguments
    fn, maskType, colorSpace, extractColorInfo, filterColor, alpha,
    \* ... files, resources and counters
    n_files, file_idx, pc, dirs_created, vcapture, result, csv,
    n_read, n_written, n_rows,
    \* ... what the current video has produced so far: the detector's answer
    \* for each frame read, the source frame numbers written to the output
    \* video, the rows of the csv (0 is the header row)
    detections, result_frames, csv_rows,
    \* ... the frame being processed
    detected, frame0, frame, face_outline_coords,
    le_mask, re_mask, lip_mask, oval_mask,
    face_skin_raw, composite, face_mask, masked_img, out_frame, sample

pathVars == <<landmark_set, routes, p1, p2, path_i, path_pc>>

scanVars == <<focusColor, video, frames_read, scanned, capture,
              min_val, max_val, min_color, max_color, scan_pc>>

argVars == <<fn, maskType, colorSpace, extractColorInfo, filterColor, alpha,
             n_files>>

logVars == <<detections, result_frames, csv_rows>>

runVars == <<file_idx, pc, dirs_created, vcapture, result, csv,
             n_read, n_written, n_rows, logVars>>

frameVars == <<detected, frame0, frame, face_outline_coords,
               le_mask, re_mask, lip_mask, oval_mask,
               face_skin_raw, composite, face_mask, masked_img, out_frame,
               sample>>

videoVars == <<argVars, runVars, frameVars>>

vars == <<pathVars, scanVars, videoVars>>

----------------------------------------------------------------------------
(* Bounds of the model *)

MaxVertex == 3      \* landmark indices are drawn from 1..MaxVertex
MaxPathLen == 5     \* longest landmark index list given to create_path
W == 3              \* frame width in pixels
H == 2              \* frame height in pixels
MaxScanFrames == 2  \* longest video given to get_min_max_rgb
MaxFiles == 2       \* most files in the input directory
MaxFrames == 2      \* most frames decoded from one input video

----------------------------------------------------------------------------
(* Idle values of the variable groups *)

NoColor == <<>>     \* Python None for min_color / max_color

PathIdle ==
    /\ landmark_set = <<>>
    /\ routes = <<>>
    /\ p1 = 0
    /\ p2 = 0
    /\ path_i = 0
    /\ path_pc = "idle"

ScanIdle ==
    /\ focusColor = [type |-> "NoneType", val |-> "None"]
    /\ video = <<>>
    /\ frames_read = 0
    /\ scanned = 0
    /\ capture = "none"
    /\ min_val = 255
    /\ max_val = 0
    /\ min_color = NoColor
    /\ max_color = NoColor
    /\ scan_pc = "idle"

\* value of a per-frame array before any frame has been processed
NoFrame == <<>>
NotComputed == {-1}

FrameIdle ==
    /\ detected = FALSE
    /\ frame0 = NoFrame
    /\ frame = NoFrame
    /\ face_outline_coords = <<>>
    /\ le_mask = {}
    /\ re_mask = {}
    /\ lip_mask = {}
    /\ oval_mask = {}
    /\ face_skin_raw = NoFrame
    /\ composite = NotComputed
    /\ face_mask = NotComputed
    /\ masked_img = NoFrame
    /\ out_frame = NoFrame
    /\ sample = <<>>

\* the per-frame arrays are cleared
ClearFrame ==
    /\ detected' = FALSE
    /\ frame0' = NoFrame
    /\ frame' = NoFrame
    /\ face_outline_coords' = <<>>
    /\ le_mask' = {}
    /\ re_mask' = {}
    /\ lip_mask' = {}
    /\ oval_mask' = {}
    /\ face_skin_raw' = NoFrame
    /\ composite' = NotComputed
    /\ face_mask' = NotComputed
    /\ masked_img' = NoFrame
    /\ out_frame' = NoFrame
    /\ sample' = <<>>

RunIdle ==
    /\ file_idx = 0
    /\ dirs_created = FALSE
    /\ vcapture = "none"
    /\ result = "none"
    /\ csv = "none"
    /\ n_read = 0
    /\ n_written = 0
    /\ n_rows = 0
    /\ detections = <<>>
    /\ result_frames = <<>>
    /\ csv_rows = <<>>

VideoIdle ==
    /\ fn = "none"
    /\ maskType = 0
    /\ colorSpace = 0
    /\ extractColorInfo = FALSE
    /\ filterColor = [type |-> "NoneType", val |-> "None"]
    /\ alpha = [type |-> "NoneType", num |-> 0]
    /\ n_files = 0
    /\ pc = "idle"
    /\ RunIdle
    /\ FrameIdle

----------------------------------------------------------------------------
(* create_path (lines 16-41) *)

Vertices == 1..MaxVertex

SeqsUpTo(S, n) == UNION {[1..k -> S] : k \in 0..n}

LandmarkSets == SeqsUpTo(Vertices, MaxPathLen)

\* line 26: the two-column dataframe of consecutive pairs (p1, p2)
landmark_dataframe(ls) ==
    [k \in 1..(IF Len(ls) = 0 THEN 0 ELSE Len(ls) - 1) |-> <<ls[k], ls[k + 1]>>]

\* line 34: the rows whose p1 equals p, in dataframe order
SelectRows(df, p) == SelectSeq(df, LAMBDA row : row[1] = p)

\* line 33: the loop runs once per dataframe row
LoopCountShort(df) == IF Len(df) = 0 THEN 0 ELSE Len(df) - 1
LoopCount(df) == Len(df)

\* lines 30-31: the traversal starts at the 'to' of the first row
StartFrom(df) == df[1][1]
StartTo(df) == df[1][2]

\* lines 35-36: values[0] of an empty selection raises IndexError, which
\* ends the call
EmptySelectionReturns == "done"
EmptySelection == "error"

PathInit ==
    /\ landmark_set \in LandmarkSets
    /\ routes = <<>>
    /\ p1 = 0
    /\ p2 = 0
    /\ path_i = 0
    /\ path_pc = "start"
    /\ ScanIdle
    /\ VideoIdle

\* lines 26-31: build the dataframe and read its first row; iloc[0] of an
\* empty dataframe raises IndexError
PathFirstRow ==
    /\ path_pc = "start"
    /\ LET df == landmark_dataframe(landmark_set) IN
         IF Len(df) = 0
         THEN /\ path_pc' = "error"
              /\ UNCHANGED <<p1, p2>>
         ELSE /\ p1' = df[1][1]
              /\ p2' = StartTo(df)
              /\ path_pc' = "loop"
    /\ UNCHANGED <<landmark_set, routes, path_i>>
    /\ UNCHANGED <<scanVars, videoVars>>

\* lines 33-39: one iteration; values[0] of an empty selection raises
\* IndexError
PathStep ==
    /\ path_pc = "loop"
    /\ path_i < LoopCount(landmark_dataframe(landmark_set))
    /\ LET obj == SelectRows(landmark_dataframe(landmark_set), p2) IN
         IF Len(obj) = 0
         THEN /\ path_pc' = EmptySelection
              /\ UNCHANGED <<p1, p2, routes, path_i>>
         ELSE /\ p1' = obj[1][1]
              /\ p2' = obj[1][2]
              /\ routes' = Append(routes, <<obj[1][1], obj[1][2]>>)
              /\ path_i' = path_i + 1
              /\ path_pc' = "loop"
    /\ UNCHANGED landmark_set
    /\ UNCHANGED <<scanVars, videoVars>>

\* line 41
PathReturn ==
    /\ path_pc = "loop"
    /\ path_i = LoopCount(landmark_dataframe(landmark_set))
    /\ path_pc' = "done"
    /\ UNCHANGED <<landmark_set, routes, p1, p2, path_i>>
    /\ UNCHANGED <<scanVars, videoVars>>

NextPath == PathFirstRow \/ PathStep \/ PathReturn

SpecPath == PathInit /\ [][NextPath]_vars

----------------------------------------------------------------------------
(* Claims about create_path *)

\* first element equals last, and there is at least one consecutive pair
IsClosed(ls) == Len(ls) >= 2 /\ ls[1] = ls[Len(ls)]

\* each vertex is the 'from' of at most one consecutive pair
FromAtMostOnce(ls) ==
    \A a, b \in 1..(Len(ls) - 1) : ls[a] = ls[b] => a = b

IsClosedChain(path) ==
    /\ \A k \in 1..(Len(path) - 1) : path[k][2] = path[k + 1][1]
    /\ Len(path) > 0 => path[Len(path)][2] = path[1][1]

\* C1: for a closed index list whose 'from' vertices are pairwise distinct,
\* create_path returns (it does not fail), the returned path has one edge per
\* consecutive pair of the input, each edge's 'to' is the next edge's 'from',
\* and the last edge's 'to' is the first edge's 'from'.
C1_ClosedChain ==
    (IsClosed(landmark_set) /\ FromAtMostOnce(landmark_set)) =>
        /\ path_pc # "error"
        /\ path_pc = "done" =>
             /\ Len(routes) = Len(landmark_set) - 1
             /\ IsClosedChain(routes)

C1_Witness ==
    /\ path_pc = "done"
    /\ IsClosed(landmark_set)
    /\ FromAtMostOnce(landmark_set)
    /\ Len(landmark_set) = 4
    /\ Len(routes) = 3

Rows(df) == {df[k] : k \in 1..Len(df)}

\* C11: create_path returns only when every step of the traversal found a
\* candidate edge: the returned path has one edge per consecutive pair, each
\* a candidate edge that starts where the previous one (at first, the first
\* pair) ended.  A list with fewer than two entries never returns, and the
\* call fails exactly where no candidate starts at the current 'to'.
C11_DeadEndFails ==
    LET df == landmark_dataframe(landmark_set) IN
    /\ Len(landmark_set) < 2 => path_pc \in {"start", "error"}
    /\ path_pc = "error" =>
          \/ Len(df) = 0
          \/ \A k \in 1..Len(df) : df[k][1] # p2
    /\ path_pc = "done" =>
          /\ Len(routes) = Len(df)
          /\ \A k \in 1..Len(routes) :
                /\ routes[k] \in Rows(df)
                /\ routes[k][1] = IF k = 1 THEN df[1][2] ELSE routes[k - 1][2]

\* an open list: one step succeeds, the next finds no candidate and fails
C11_Witness ==
    /\ path_pc = "error"
    /\ Len(landmark_set) = 3
    /\ landmark_set[1] # landmark_set[3]
    /\ Len(routes) = 1
    /\ \A k \in 1..2 : landmark_set[k] # p2

\* C17: for a closed list with pairwise distinct 'from' vertices and n
\* consecutive pairs the returned path is the input edge list rotated left
\* by one: edge i (from 0) is (list[(i+1) mod n], list[(i+2) mod n]); the
\* first returned edge is the second input pair, the last is the first.
C17_RotatedLeftByOne ==
    (path_pc = "done" /\ IsClosed(landmark_set)
        /\ FromAtMostOnce(landmark_set)) =>
       LET n == Len(landmark_set) - 1 IN
         /\ Len(routes) = n
         /\ \A i \in 0..(n - 1) :
               routes[i + 1] = <<landmark_set[((i + 1) % n) + 1],
                                landmark_set[((i + 2) % n) + 1]>>
         /\ routes[n] = <<landmark_set[1], landmark_set[2]>>

C17_Witness ==
    /\ path_pc = "done"
    /\ IsClosed(landmark_set)
    /\ FromAtMostOnce(landmark_set)
    /\ Len(landmark_set) = 4
    /\ routes[1] = <<landmark_set[2], landmark_set[3]>>
    /\ routes[1] # <<landmark_set[1], landmark_set[2]>>
    /\ routes[3] = <<landmark_set[1], landmark_set[2]>>

----------------------------------------------------------------------------
(* Frames: H rows of W pixels in raster (row-major) order, positions       *)
(* 0..NPix-1; a pixel is <<blue, green, red>> as OpenCV decodes it.        *)

NPix == W * H
Positions == 0..(NPix - 1)

Min(S) == CHOOSE m \in S : \A n \in S : m <= n
Max(S) == CHOOSE m \in S : \A n \in S : m >= n

\* frame[y, x]
At(img, y, x) == img[y * W + x]

\* a frame whose first W+1 pixels have colour c1 and the others colour c2
SplitFrame(c1, c2) == [p \in Positions |-> IF p <= W THEN c1 ELSE c2]

----------------------------------------------------------------------------
(* get_min_max_rgb (lines 371-473) *)

COLOR_RED == 3
COLOR_BLUE == 4
COLOR_GREEN == 5

\* Python values given as focusColor / filterColor: an int, a str or None
PyInt(n) == [type |-> "int", val |-> n]
PyStr(s) == [type |-> "str", val |-> s]
PyNone == [type |-> "NoneType", val |-> "None"]

\* str.lower on the spellings the model uses
Lower(s) ==
    CASE s \in {"red", "Red", "RED"} -> "red"
      [] s \in {"green", "Green", "GREEN"} -> "green"
      [] s \in {"blue", "Blue", "BLUE"} -> "blue"
      [] OTHER -> s

FocusColors ==
    {PyInt(COLOR_RED), PyInt(COLOR_BLUE), PyInt(COLOR_GREEN), PyInt(7),
     PyStr("red"), PyStr("Green"), PyStr("BLUE"), PyStr("purple"), PyNone}

ScanPalette ==
    {<<0, 0, 0>>, <<255, 255, 255>>, <<10, 20, 200>>, <<5, 5, 250>>,
     <<5, 20, 200>>}

ScanFrames == {SplitFrame(c1, c2) : c1, c2 \in ScanPalette}

Videos == SeqsUpTo(ScanFrames, MaxScanFrames)

\* lines 401-408: "ok", or the exception raised
CheckFocusColor(fc) ==
    IF fc.type = "str"
    THEN IF Lower(fc.val) \notin {"red", "green", "blue"}
         THEN "ValueError" ELSE "ok"
    ELSE IF fc.type = "int"
         THEN IF fc.val \notin {COLOR_RED, COLOR_BLUE, COLOR_GREEN}
              THEN "ValueError" ELSE "ok"
         ELSE "TypeError"

\* lines 422, 439, 456: the branch taken for a frame; str.lower raises
\* TypeError when it is reached with an int
FocusBranch(fc) ==
    IF fc.type = "int" /\ fc.val = COLOR_RED THEN "red"
    ELSE IF fc.type # "str" THEN "TypeError"
    ELSE IF Lower(fc.val) = "red" THEN "red"
    ELSE IF Lower(fc.val) = "blue" THEN "blue"
    ELSE "green"

\* line 420: cv.split(frame) gives blue, green, red
ChannelIndex(branch) ==
    CASE branch = "blue" -> 1
      [] branch = "green" -> 2
      [] branch = "red" -> 3

\* the channel plane as a function of position
Plane(img, ch) == [p \in Positions |-> img[p][ch]]

\* np.where(plane == v): the matching positions in raster order; [0][0] is
\* the row and [1][0] the column of the first of them
WhereFirst(plane, v) == Min({p \in Positions : plane[p] = v})

\* lines 423-429: (y, x) of the frame's maximum and minimum
ArgMax(plane) ==
    LET v == Max({plane[p] : p \in Positions})
        first == WhereFirst(plane, v)
    IN [y |-> first \div W, x |-> first % W]

ArgMin(plane) ==
    LET v == Min({plane[p] : p \in Positions})
        first == WhereFirst(plane, v)
    IN [y |-> first \div W, x |-> first % W]

\* lines 431, 435: the update conditions
BeatsMaxOrTies(cur, running) == cur >= running
BeatsMax(cur, running) == cur > running
BeatsMin(cur, running) == cur < running

ScanInit ==
    /\ focusColor \in FocusColors
    /\ video \in Videos
    /\ frames_read = 0
    /\ scanned = 0
    /\ capture = "none"
    /\ min_val = 255
    /\ max_val = 0
    /\ min_color = NoColor
    /\ max_color = NoColor
    /\ scan_pc = "start"
    /\ PathIdle
    /\ VideoIdle

\* lines 401-412: validate focusColor, then open the capture
ScanValidate ==
    /\ scan_pc = "start"
    /\ IF CheckFocusColor(focusColor) = "ok"
       THEN /\ capture' = "open"
            /\ scan_pc' = "loop"
       ELSE /\ capture' = capture
            /\ scan_pc' = CheckFocusColor(focusColor)
    /\ UNCHANGED <<focusColor, video, frames_read, scanned,
                   min_val, max_val, min_color, max_color>>
    /\ UNCHANGED <<pathVars, videoVars>>

\* lines 414-471: read one frame and update the running extrema
ScanFrame ==
    /\ scan_pc = "loop"
    /\ frames_read < Len(video)
    /\ frames_read' = frames_read + 1
    /\ LET img == video[frames_read + 1]
           branch == FocusBranch(focusColor)
       IN IF branch = "TypeError"
          THEN /\ scan_pc' = "TypeError"
               /\ UNCHANGED <<scanned, min_val, max_val, min_color, max_color>>
          ELSE LET plane == Plane(img, ChannelIndex(branch))
                   mx == ArgMax(plane)
                   mn == ArgMin(plane)
                   cur_max_val == plane[mx.y * W + mx.x]
                   cur_min_val == plane[mn.y * W + mn.x]
               IN /\ IF BeatsMax(cur_max_val, max_val)
                     THEN /\ max_val' = cur_max_val
                          /\ max_color' = At(img, mx.y, mx.x)
                     ELSE UNCHANGED <<max_val, max_color>>
                  /\ IF BeatsMin(cur_min_val, min_val)
                     THEN /\ min_val' = cur_min_val
                          /\ min_color' = At(img, mn.y, mn.x)
                     ELSE UNCHANGED <<min_val, min_color>>
                  /\ scanned' = scanned + 1
                  /\ scan_pc' = "loop"
    /\ UNCHANGED <<focusColor, video, capture>>
    /\ UNCHANGED <<pathVars, videoVars>>

\* lines 416-418, 473: end of stream, return (min_color, max_color); the
\* capture is not released
ScanReturn ==
    /\ scan_pc = "loop"
    /\ frames_read = Len(video)
    /\ scan_pc' = "done"
    /\ UNCHANGED <<focusColor, video, frames_read, scanned, capture,
                   min_val, max_val, min_color, max_color>>
    /\ UNCHANGED <<pathVars, videoVars>>

NextScan == ScanValidate \/ ScanFrame \/ ScanReturn

SpecScan == ScanInit /\ [][NextScan]_vars

----------------------------------------------------------------------------
(* Claims about get_min_max_rgb *)

\* the channel a validated selector names, as an index into <<B, G, R>>
NamedChannel(fc) ==
    IF fc.type = "int"
    THEN CASE fc.val = COLOR_RED -> 3
           [] fc.val = COLOR_GREEN -> 2
           [] fc.val = COLOR_BLUE -> 1
    ELSE CASE Lower(fc.val) = "red" -> 3
           [] Lower(fc.val) = "green" -> 2
           [] Lower(fc.val) = "blue" -> 1

FrameValues(img, ch) == {img[p][ch] : p \in Positions}

\* focus-channel values of the frames scanned so far
SeenValues(ch) == UNION {FrameValues(video[k], ch) : k \in 1..scanned}

\* the pixel at the first raster-order position of frame holding v in ch
FirstPixelWith(img, ch, v) ==
    img[CHOOSE p \in Positions :
            /\ img[p][ch] = v
            /\ \A q \in Positions : img[q][ch] = v => p <= q]

\* k is the frame that set the running maximum: its maximum is the running
\* maximum and strictly exceeds 0 and the maximum of every earlier frame
SetsRunningMax(k, ch) ==
    /\ Max(FrameValues(video[k], ch)) = max_val
    /\ max_val > 0
    /\ \A j \in 1..(k - 1) : Max(FrameValues(video[j], ch)) < max_val

SetsRunningMin(k, ch) ==
    /\ Min(FrameValues(video[k], ch)) = min_val
    /\ min_val < 255
    /\ \A j \in 1..(k - 1) : Min(FrameValues(video[j], ch)) > min_val

\* C2: at every point of the scan the running maximum is max(0, largest
\* focus-channel value scanned) and the running minimum min(255, smallest);
\* max_color is unset exactly when no scanned value exceeds 0 (also for a
\* video without frames), otherwise it is the B,G,R pixel at the first
\* raster-order position of the maximum in the earliest frame whose maximum
\* strictly exceeded 0 and every earlier frame and equals the running
\* maximum; min_color symmetrically against 255.
C2_RunningExtrema ==
    CheckFocusColor(focusColor) = "ok" =>
      LET ch == NamedChannel(focusColor) IN
        /\ max_val = Max({0} \cup SeenValues(ch))
        /\ min_val = Min({255} \cup SeenValues(ch))
        /\ (max_color = NoColor) <=> (\A v \in SeenValues(ch) : v <= 0)
        /\ (min_color = NoColor) <=> (\A v \in SeenValues(ch) : v >= 255)
        /\ max_color # NoColor =>
             \E k \in 1..scanned :
                /\ SetsRunningMax(k, ch)
                /\ max_color = FirstPixelWith(video[k], ch, max_val)
        /\ min_color # NoColor =>
             \E k \in 1..scanned :
                /\ SetsRunningMin(k, ch)
                /\ min_color = FirstPixelWith(video[k], ch, min_val)

\* the two-frame scenario: red maximum 200, then 250 at colour (5,5,250)
C2_Witness ==
    /\ scan_pc = "done"
    /\ scanned = 2
    /\ NamedChannel(focusColor) = 3
    /\ Max(FrameValues(video[1], 3)) = 200
    /\ max_val = 250
    /\ max_color = <<5, 5, 250>>
    /\ min_color # NoColor

\* C3: for every selector that passes validation and every video with at
\* least one frame, the scan raises no error, and when it returns it has
\* read and scanned every frame exactly once.
C3_ValidSelectorScans ==
    (CheckFocusColor(focusColor) = "ok" /\ Len(video) >= 1) =>
        /\ scan_pc \notin {"TypeError", "ValueError"}
        /\ scan_pc = "done" =>
             frames_read = Len(video) /\ scanned = Len(video)

----------------------------------------------------------------------------
(* OpenCV and NumPy operations on 8-bit frames *)

Black == <<0, 0, 0>>

\* the integer nearest to n / d (d > 0), halves going to the even neighbour,
\* as cvRound and Python's float formatting round
RoundDiv(n, d) ==
    LET q == n \div d
        r == n - q * d
    IN IF 2 * r < d THEN q
       ELSE IF 2 * r > d THEN q + 1
       ELSE IF q % 2 = 0 THEN q ELSE q + 1

\* saturate_cast<uchar>
Saturate(v) == IF v < 0 THEN 0 ELSE IF v > 255 THEN 255 ELSE v

\* cv.cvtColor(_, COLOR_BGR2GRAY) of one pixel: 15-bit fixed point
\* 0.114 B + 0.587 G + 0.299 R
Gray(px) == (px[1] * 3735 + px[2] * 19235 + px[3] * 9798 + 16384) \div 32768

\* cv.cvtColor(_, COLOR_BGR2HSV) of one 8-bit pixel: hue in 0..179, with the
\* 12-bit division tables of the 8-bit conversion
SDivTable(i) == IF i = 0 THEN 0 ELSE RoundDiv(255 * 4096, i)
HDivTable180(i) == IF i = 0 THEN 0 ELSE RoundDiv(180 * 4096, 6 * i)

Hsv(px) ==
    LET b == px[1]
        g == px[2]
        r == px[3]
        v == Max({b, g, r})
        vmin == Min({b, g, r})
        diff == v - vmin
        sat == (diff * SDivTable(v) + 2048) \div 4096
        h0 == IF v = r THEN g - b
              ELSE IF v = g THEN b - r + 2 * diff
              ELSE r - g + 4 * diff
        h1 == (h0 * HDivTable180(diff) + 2048) \div 4096
        hue == IF h1 < 0 THEN h1 + 180 ELSE h1
    IN <<Saturate(hue), sat, v>>

COLOR_SPACE_RGB == 4          \* cv.COLOR_BGR2RGB
COLOR_SPACE_HSV == 40         \* cv.COLOR_BGR2HSV
COLOR_SPACE_GRAYSCALE == 6    \* cv.COLOR_BGR2GRAY
COLOR_SPACES == {COLOR_SPACE_RGB, COLOR_SPACE_HSV, COLOR_SPACE_GRAYSCALE}

\* cv.cvtColor(img, code) for the codes the module uses
CvtColor(img, code) ==
    [p \in Positions |->
        CASE code = COLOR_SPACE_HSV -> Hsv(img[p])
          [] code = COLOR_SPACE_GRAYSCALE -> <<Gray(img[p])>>
          [] code = COLOR_SPACE_RGB -> <<img[p][3], img[p][2], img[p][1]>>]

\* img[mask] = 0
ZeroAt(img, mask) == [p \in Positions |-> IF p \in mask THEN Black ELSE img[p]]

\* out = np.zeros_like(img); out[mask] = img[mask]
KeepAll(img, mask) == img
KeepAt(img, mask) == [p \in Positions |-> IF p \in mask THEN img[p] ELSE Black]

\* cv.inRange(grey, 220, 255) == 255
WhiteMaskAbove(img) ==
    {p \in Positions : Gray(img[p]) > 220 /\ Gray(img[p]) <= 255}
WhiteMask(img) ==
    {p \in Positions : Gray(img[p]) >= 220 /\ Gray(img[p]) <= 255}

\* lines 243-246 and 336-339: removing face mesh artifacts
CleanArtifacts(img) == ZeroAt(img, WhiteMask(img))

RECURSIVE SumChannel(_, _, _)
SumChannel(img, mask, ch) ==
    IF mask = {} THEN 0
    ELSE LET p == CHOOSE q \in mask : TRUE
         IN img[p][ch] + SumChannel(img, mask \ {p}, ch)

\* one channel of cv.mean(img, mask), printed with format .5f: the value in
\* units of 0.00001; cv.mean of an empty mask is 0
MeanFmt5(img, mask, ch) ==
    IF mask = {} THEN 0
    ELSE RoundDiv(SumChannel(img, mask, ch) * 100000, Cardinality(mask))

----------------------------------------------------------------------------
(* Region masks.  The detector is external: the model draws the resolved   *)
(* vertex list of the face oval from the corner lists of axis-parallel     *)
(* boxes, and the eye and lip regions from single pixels.                  *)

\* lines 183-214: landmark coordinates are int(lm.x * iw), int(lm.y * ih)
\* with nothing clamping them to the frame; the model lets x reach W, one
\* column past the right edge.  A box may be a single point or a segment.
Corners(x0, y0, x1, y1) == <<<<x0, y0>>, <<x1, y0>>, <<x1, y1>>, <<x0, y1>>>>

OvalCoords ==
    {Corners(b[1], b[2], b[3], b[4]) :
        b \in {c \in (0..W) \X (0..(H - 1)) \X (0..W) \X (0..(H - 1)) :
                  c[1] <= c[3] /\ c[2] <= c[4]}}

\* lines 216-231: cv.fillConvexPoly(mask, pts, 1) sets the pixels of the
\* polygon, boundary included, and clips at the frame; it accepts a
\* polygon that is a point or a segment.  For the corners of an
\* axis-parallel box these are the pixels of the box that lie in the frame.
FillConvexPoly(pts) ==
    LET xs == {pts[k][1] : k \in 1..Len(pts)}
        ys == {pts[k][2] : k \in 1..Len(pts)}
    IN {p \in Positions :
          /\ \E a \in xs, b \in xs : a <= p % W /\ p % W <= b
          /\ \E a \in ys, b \in ys : a <= p \div W /\ p \div W <= b}

\* left eye, right eye and lips regions, one pixel each when present (all
\* the landmarks of the region resolve to that pixel): none of them, one of
\* them, or all three
FeatureMasks ==
    {[le |-> {}, re |-> {}, lip |-> {}],
     [le |-> {0}, re |-> {}, lip |-> {}],
     [le |-> {}, re |-> {W - 1}, lip |-> {}],
     [le |-> {}, re |-> {}, lip |-> {W + 1}],
     [le |-> {0}, re |-> {W - 1}, lip |-> {W + 1}]}

----------------------------------------------------------------------------
(* mask_face_region (lines 59-365) *)

\* VideoCapture(path) never raises: a path that cannot be opened or decoded
\* gives a capture whose read() returns False from the first call on
VideoCapture == {"open", "unopened"}

\* lines 180-181 and 316-317 (569-570 in face_color_filter): `continue`
\* goes back to the loop head without writing the frame
AfterContinueWrites(written, k) == Append(written, k)
AfterContinue(written, k) == written

FACE_OVAL == 1
FACE_SKIN_ISOLATION == 2
MASK_OPTIONS == {FACE_OVAL, FACE_SKIN_ISOLATION}

MaskTypeArgs == {FACE_OVAL, FACE_SKIN_ISOLATION, 3}
ColorSpaceArgs == COLOR_SPACES \cup {0}

MaskPalette ==
    {<<219, 219, 219>>, <<220, 220, 220>>, <<255, 255, 255>>, <<10, 20, 200>>}

MaskFrames == {SplitFrame(c1, c2) : c1, c2 \in MaskPalette}

\* lines 252-256: bin_mask of the FACE_SKIN_ISOLATION branch
SkinMaskKeepLips(oval, le, re, lip) == (oval \ le) \ re
SkinMask(oval, le, re, lip) == ((oval \ le) \ re) \ lip

\* lines 258-271 and 348-361: the values of the row written to the csv,
\* after the Timestamp column
SampleBGR(img, mask, cs) ==
    CASE cs = COLOR_SPACE_RGB ->
           <<MeanFmt5(img, mask, 1), MeanFmt5(img, mask, 2),
             MeanFmt5(img, mask, 3)>>
      [] cs = COLOR_SPACE_HSV ->
           <<MeanFmt5(CvtColor(img, cs), mask, 1),
             MeanFmt5(CvtColor(img, cs), mask, 2),
             MeanFmt5(CvtColor(img, cs), mask, 3)>>
      [] cs = COLOR_SPACE_GRAYSCALE ->
           <<MeanFmt5(CvtColor(img, cs), mask, 1)>>
Sample(img, mask, cs) ==
    CASE cs = COLOR_SPACE_RGB ->
           <<MeanFmt5(img, mask, 3), MeanFmt5(img, mask, 2),
             MeanFmt5(img, mask, 1)>>
      [] cs = COLOR_SPACE_HSV ->
           <<MeanFmt5(CvtColor(img, cs), mask, 1),
             MeanFmt5(CvtColor(img, cs), mask, 2),
             MeanFmt5(CvtColor(img, cs), mask, 3)>>
      [] cs = COLOR_SPACE_GRAYSCALE ->
           <<MeanFmt5(CvtColor(img, cs), mask, 1)>>

\* The directory arguments are taken to be existing paths and
\* withSubDirectories and extractColorInfo to be booleans, so the checks of
\* lines 104-112 and 120-124 pass.
MaskInit ==
    /\ fn = "mask_face_region"
    /\ maskType \in MaskTypeArgs
    /\ colorSpace \in ColorSpaceArgs
    /\ extractColorInfo \in BOOLEAN
    /\ filterColor = PyNone
    /\ alpha = [type |-> "NoneType", num |-> 0]
    /\ n_files \in 0..MaxFiles
    /\ pc = "start"
    /\ RunIdle
    /\ FrameIdle
    /\ PathIdle
    /\ ScanIdle

\* lines 114-139: check maskType and colorSpace, list the files, create the
\* output directories
MaskValidate ==
    /\ fn = "mask_face_region"
    /\ pc = "start"
    /\ IF maskType \notin MASK_OPTIONS \/ colorSpace \notin COLOR_SPACES
       THEN /\ pc' = "ValueError"
            /\ UNCHANGED dirs_created
       ELSE /\ dirs_created' = TRUE
            /\ pc' = "files"
    /\ UNCHANGED <<file_idx, vcapture, result, csv, n_read, n_written, n_rows,
                   logVars>>
    /\ UNCHANGED <<argVars, frameVars, pathVars, scanVars>>

\* lines 143-162 and 279-298: open the capture and the writer of the next
\* file; the csv is opened, and its header written, only with
\* extractColorInfo
MaskOpenVideo ==
    /\ fn = "mask_face_region"
    /\ pc = "files"
    /\ file_idx < n_files
    /\ vcapture' \in VideoCapture
    /\ result' = "open"
    /\ csv' = IF extractColorInfo THEN "open" ELSE "None"
    /\ csv_rows' = IF extractColorInfo THEN <<0>> ELSE <<>>
    /\ n_rows' = IF extractColorInfo THEN 1 ELSE 0
    /\ n_read' = 0
    /\ n_written' = 0
    /\ detections' = <<>>
    /\ result_frames' = <<>>
    /\ pc' = "frames"
    /\ UNCHANGED <<file_idx, dirs_created>>
    /\ UNCHANGED <<argVars, frameVars, pathVars, scanVars>>

\* lines 165-181 and 301-317: a frame without a detected face is read and
\* skipped
MaskSkipFrame ==
    /\ fn = "mask_face_region"
    /\ pc = "frames"
    /\ vcapture = "open"
    /\ n_read < MaxFrames
    /\ \E f \in MaskFrames :
         /\ frame0' = f
         /\ frame' = f
    /\ detected' = FALSE
    /\ detections' = Append(detections, FALSE)
    /\ n_read' = n_read + 1
    /\ result_frames' = AfterContinue(result_frames, n_read + 1)
    /\ n_written' = Len(result_frames')
    /\ pc' = "frame_end"
    /\ UNCHANGED <<face_outline_coords, le_mask, re_mask, lip_mask, oval_mask,
                   face_skin_raw, composite, face_mask, masked_img, out_frame,
                   sample>>
    /\ UNCHANGED <<file_idx, dirs_created, vcapture, result, csv,
                   n_rows, csv_rows>>
    /\ UNCHANGED <<argVars, pathVars, scanVars>>

\* lines 164, 181, 271 and 361: the loop body is over (or `continue` was
\* taken) and control is back at `while True`.  The arrays of the finished
\* iteration are dead from here on (each is assigned again before it is
\* read); the model clears them.
MaskNextFrame ==
    /\ fn = "mask_face_region"
    /\ pc = "frame_end"
    /\ pc' = "frames"
    /\ ClearFrame
    /\ UNCHANGED <<file_idx, dirs_created, vcapture, result, csv,
                   n_read, n_written, n_rows, logVars>>
    /\ UNCHANGED <<argVars, pathVars, scanVars>>

\* lines 165-271: one frame with a face, FACE_SKIN_ISOLATION branch.
\* masked_frame is the same array as frame, so zeroing the eye and lip
\* regions changes frame itself.
MaskSkinFrame ==
    /\ fn = "mask_face_region"
    /\ pc = "frames"
    /\ maskType = FACE_SKIN_ISOLATION
    /\ vcapture = "open"
    /\ n_read < MaxFrames
    /\ \E f \in MaskFrames, pts \in OvalCoords, ft \in FeatureMasks :
         /\ frame0' = f
         /\ frame' = ZeroAt(ZeroAt(ZeroAt(f, ft.le), ft.re), ft.lip)
         /\ le_mask' = ft.le
         /\ re_mask' = ft.re
         /\ lip_mask' = ft.lip
         /\ face_outline_coords' = pts
         /\ oval_mask' = FillConvexPoly(pts)
         /\ face_skin_raw' = KeepAt(frame', oval_mask')
         /\ out_frame' = CleanArtifacts(face_skin_raw')
         /\ IF extractColorInfo
            THEN /\ composite' = SkinMask(oval_mask', ft.le, ft.re, ft.lip)
                 /\ sample' = Sample(frame', composite', colorSpace)
                 /\ n_rows' = n_rows + 1
                 /\ csv_rows' = Append(csv_rows, n_read + 1)
            ELSE /\ composite' = NotComputed
                 /\ sample' = <<>>
                 /\ UNCHANGED <<n_rows, csv_rows>>
    /\ detected' = TRUE
    /\ detections' = Append(detections, TRUE)
    /\ result_frames' = Append(result_frames, n_read + 1)
    /\ face_mask' = NotComputed
    /\ masked_img' = NoFrame
    /\ n_read' = n_read + 1
    /\ n_written' = n_written + 1
    /\ pc' = "frame_end"
    /\ UNCHANGED <<file_idx, dirs_created, vcapture, result, csv>>
    /\ UNCHANGED <<argVars, pathVars, scanVars>>

\* lines 301-361: one frame with a face, FACE_OVAL branch
MaskOvalFrame ==
    /\ fn = "mask_face_region"
    /\ pc = "frames"
    /\ maskType = FACE_OVAL
    /\ vcapture = "open"
    /\ n_read < MaxFrames
    /\ \E f \in MaskFrames, pts \in OvalCoords :
         /\ frame0' = f
         /\ frame' = f
         /\ face_outline_coords' = pts
         /\ oval_mask' = FillConvexPoly(pts)
         /\ face_skin_raw' = KeepAt(f, oval_mask')
         /\ out_frame' = CleanArtifacts(face_skin_raw')
         /\ IF extractColorInfo
            THEN /\ composite' = oval_mask'
                 /\ sample' = Sample(f, composite', colorSpace)
                 /\ n_rows' = n_rows + 1
                 /\ csv_rows' = Append(csv_rows, n_read + 1)
            ELSE /\ composite' = NotComputed
                 /\ sample' = <<>>
                 /\ UNCHANGED <<n_rows, csv_rows>>
    /\ detected' = TRUE
    /\ detections' = Append(detections, TRUE)
    /\ result_frames' = Append(result_frames, n_read + 1)
    /\ le_mask' = {}
    /\ re_mask' = {}
    /\ lip_mask' = {}
    /\ face_mask' = NotComputed
    /\ masked_img' = NoFrame
    /\ n_read' = n_read + 1
    /\ n_written' = n_written + 1
    /\ pc' = "frame_end"
    /\ UNCHANGED <<file_idx, dirs_created, vcapture, result, csv>>
    /\ UNCHANGED <<argVars, pathVars, scanVars>>

\* lines 165-167, 273-275 and 363-365: the stream ends; release the capture
\* and the writer and close the csv.  Without extractColorInfo csv is None
\* and csv.close() raises AttributeError.
\* read() of a capture that never opened returns False at once, and
\* release() of it does nothing: it stays "unopened".
MaskEndVideo ==
    /\ fn = "mask_face_region"
    /\ pc = "frames"
    /\ vcapture' = IF vcapture = "open" THEN "released" ELSE vcapture
    /\ result' = "released"
    /\ IF csv = "None"
       THEN /\ pc' = "AttributeError"
            /\ UNCHANGED <<csv, file_idx>>
       ELSE /\ csv' = "closed"
            /\ file_idx' = file_idx + 1
            /\ pc' = "files"
    /\ UNCHANGED <<dirs_created, n_read, n_written, n_rows, logVars>>
    /\ UNCHANGED <<argVars, frameVars, pathVars, scanVars>>

\* the loop over files_to_process is exhausted: the function returns
MaskReturn ==
    /\ fn = "mask_face_region"
    /\ pc = "files"
    /\ file_idx = n_files
    /\ pc' = "done"
    /\ UNCHANGED <<file_idx, dirs_created, vcapture, result, csv,
                   n_read, n_written, n_rows, logVars>>
    /\ UNCHANGED <<argVars, frameVars, pathVars, scanVars>>

NextMask ==
    \/ MaskValidate
    \/ MaskOpenVideo
    \/ MaskSkipFrame
    \/ MaskSkinFrame
    \/ MaskOvalFrame
    \/ MaskNextFrame
    \/ MaskEndVideo
    \/ MaskReturn

SpecMask == MaskInit /\ [][NextMask]_vars

----------------------------------------------------------------------------
(* face_color_filter (lines 477-689) *)

\* alpha as a Python value: a float num/den, or an int
PyFloat(n, d) == [type |-> "float", num |-> n, den |-> d]

AlphaArgs ==
    {PyFloat(15, 100), PyFloat(1, 2), PyFloat(1, 1),
     PyFloat(5, 4), PyFloat(-1, 4), [type |-> "int", num |-> 1, den |-> 1]}

FilterColorArgs ==
    {PyInt(COLOR_RED), PyInt(COLOR_BLUE), PyInt(COLOR_GREEN), PyInt(7)}

FilterFrames ==
    {SplitFrame(<<100, 100, 100>>, <<100, 100, 100>>),
     SplitFrame(<<100, 100, 100>>, <<200, 40, 0>>)}

\* lines 525-528: "ok", or the exception raised
CheckAlpha(a) ==
    IF a.type # "float" THEN "TypeError"
    ELSE IF a.num > a.den \/ a.num < 0 THEN "ValueError"
    ELSE "ok"

\* lines 647-651: face_mask before the morphological clean-up
FaceMask(oval, le, re, lip) == ((oval \ le) \ re) \ lip

\* the 3x3 neighbourhood of each pixel, inside the frame
NeighbourTable ==
    [p \in Positions |->
        {q \in Positions :
            /\ (q \div W) - (p \div W) \in {-1, 0, 1}
            /\ (q % W) - (p % W) \in {-1, 0, 1}}]

Neighbours(p) == NeighbourTable[p]

\* cv.erode / cv.dilate with the 3x3 rectangle of line 658; pixels beyond
\* the border do not take part
Erode(mask) == {p \in Positions : Neighbours(p) \subseteq mask}
Dilate(mask) == {p \in Positions : Neighbours(p) \cap mask # {}}

\* lines 660-661: cv.morphologyEx MORPH_OPEN, then MORPH_CLOSE
MorphOpen(mask) == Dilate(Erode(mask))
MorphClose(mask) == Erode(Dilate(mask))

\* lines 669-682: the colour painted into the mask, as <<B, G, R>>
SolidColor(fc) ==
    IF fc.type = "int" /\ fc.val = COLOR_RED THEN <<0, 0, 255>>
    ELSE IF fc.type = "int" /\ fc.val = COLOR_BLUE THEN <<255, 0, 0>>
    ELSE <<0, 255, 0>>

\* masked_img = np.copy(frame); masked_img[(face_mask == 255).all(-1)] = c
Paint(img, mask, c) == [p \in Positions |-> IF p \in mask THEN c ELSE img[p]]

\* cv.addWeighted(src1, a, src2, b, gamma) with a = a.num / a.den and
\* integers b and gamma, on 8-bit channels
AddWeighted(src1, a, src2, b, gamma) ==
    [p \in Positions |->
        [ch \in 1..3 |->
            Saturate(RoundDiv(a.num * src1[p][ch]
                                + a.den * (b * src2[p][ch] + gamma),
                              a.den))]]

\* line 673: cv.addWeighted(masked_img, alpha, frame, 1, 0, frame)
Blend(colored, a, img) ==
    AddWeighted(colored, a, img, 1, 0)

\* The directory arguments are taken to be existing paths and
\* withSubDirectories to be a boolean, so the checks of lines 515-523 and
\* 530-531 pass.
FilterInit ==
    /\ fn = "face_color_filter"
    /\ filterColor \in FilterColorArgs
    /\ alpha \in AlphaArgs
    /\ maskType = 0
    /\ colorSpace = 0
    /\ extractColorInfo = FALSE
    /\ n_files \in 0..MaxFiles
    /\ pc = "start"
    /\ RunIdle
    /\ FrameIdle
    /\ PathIdle
    /\ ScanIdle

\* lines 525-541: check alpha and list the files
FilterValidate ==
    /\ fn = "face_color_filter"
    /\ pc = "start"
    /\ pc' = IF CheckAlpha(alpha) = "ok" THEN "files" ELSE CheckAlpha(alpha)
    /\ UNCHANGED <<file_idx, dirs_created, vcapture, result, csv,
                   n_read, n_written, n_rows, logVars>>
    /\ UNCHANGED <<argVars, frameVars, pathVars, scanVars>>

\* lines 543-550: open the capture and the writer of the next file
FilterOpenVideo ==
    /\ fn = "face_color_filter"
    /\ pc = "files"
    /\ file_idx < n_files
    /\ vcapture' \in VideoCapture
    /\ result' = "open"
    /\ n_read' = 0
    /\ n_written' = 0
    /\ detections' = <<>>
    /\ result_frames' = <<>>
    /\ pc' = "frames"
    /\ UNCHANGED <<file_idx, dirs_created, csv, n_rows, csv_rows>>
    /\ UNCHANGED <<argVars, frameVars, pathVars, scanVars>>

\* lines 554-570: a frame without a detected face is read and skipped
FilterSkipFrame ==
    /\ fn = "face_color_filter"
    /\ pc = "frames"
    /\ vcapture = "open"
    /\ n_read < MaxFrames
    /\ \E f \in FilterFrames :
         /\ frame0' = f
         /\ frame' = f
    /\ detected' = FALSE
    /\ detections' = Append(detections, FALSE)
    /\ n_read' = n_read + 1
    /\ result_frames' = AfterContinue(result_frames, n_read + 1)
    /\ n_written' = Len(result_frames')
    /\ pc' = "frame_end"
    /\ UNCHANGED <<face_outline_coords, le_mask, re_mask, lip_mask, oval_mask,
                   face_skin_raw, composite, face_mask, masked_img, out_frame,
                   sample>>
    /\ UNCHANGED <<file_idx, dirs_created, vcapture, result, csv,
                   n_rows, csv_rows>>
    /\ UNCHANGED <<argVars, pathVars, scanVars>>

\* lines 554-686: one frame with a face.  addWeighted writes its result
\* into frame, which is then written to the output video.
FilterFrame ==
    /\ fn = "face_color_filter"
    /\ pc = "frames"
    /\ vcapture = "open"
    /\ n_read < MaxFrames
    /\ \E f \in FilterFrames, pts \in OvalCoords, ft \in FeatureMasks :
         /\ frame0' = f
         /\ le_mask' = ft.le
         /\ re_mask' = ft.re
         /\ lip_mask' = ft.lip
         /\ face_outline_coords' = pts
         /\ oval_mask' = FillConvexPoly(pts)
         /\ composite' = FaceMask(oval_mask', ft.le, ft.re, ft.lip)
         /\ face_mask' = MorphClose(MorphOpen(composite'))
         /\ masked_img' = Paint(f, face_mask', SolidColor(filterColor))
         /\ frame' = Blend(masked_img', alpha, f)
         /\ out_frame' = frame'
    /\ detected' = TRUE
    /\ detections' = Append(detections, TRUE)
    /\ result_frames' = Append(result_frames, n_read + 1)
    /\ n_read' = n_read + 1
    /\ n_written' = n_written + 1
    /\ pc' = "frame_end"
    /\ UNCHANGED <<face_skin_raw, sample>>
    /\ UNCHANGED <<file_idx, dirs_created, vcapture, result, csv, n_rows,
                   csv_rows>>
    /\ UNCHANGED <<argVars, pathVars, scanVars>>

\* lines 552, 570 and 686: back at `while True`; the arrays of the finished
\* iteration are dead and the model clears them
FilterNextFrame ==
    /\ fn = "face_color_filter"
    /\ pc = "frame_end"
    /\ pc' = "frames"
    /\ ClearFrame
    /\ UNCHANGED <<file_idx, dirs_created, vcapture, result, csv,
                   n_read, n_written, n_rows, logVars>>
    /\ UNCHANGED <<argVars, pathVars, scanVars>>

\* lines 554-556 and 688-689: the stream ends; the capture and the writer
\* are released (a capture that never opened ends at its first read and
\* stays "unopened")
FilterEndVideo ==
    /\ fn = "face_color_filter"
    /\ pc = "frames"
    /\ vcapture' = IF vcapture = "open" THEN "released" ELSE vcapture
    /\ result' = "released"
    /\ file_idx' = file_idx + 1
    /\ pc' = "files"
    /\ UNCHANGED <<dirs_created, csv, n_read, n_written, n_rows, logVars>>
    /\ UNCHANGED <<argVars, frameVars, pathVars, scanVars>>

\* the loop over files_to_process is exhausted: the function returns
FilterReturn ==
    /\ fn = "face_color_filter"
    /\ pc = "files"
    /\ file_idx = n_files
    /\ pc' = "done"
    /\ UNCHANGED <<file_idx, dirs_created, vcapture, result, csv,
                   n_read, n_written, n_rows, logVars>>
    /\ UNCHANGED <<argVars, frameVars, pathVars, scanVars>>

NextFilter ==
    \/ FilterValidate
    \/ FilterOpenVideo
    \/ FilterSkipFrame
    \/ FilterFrame
    \/ FilterNextFrame
    \/ FilterEndVideo
    \/ FilterReturn

SpecFilter == FilterInit /\ [][NextFilter]_vars

----------------------------------------------------------------------------
(* The two functions that write videos, each called once *)

VideoInit == MaskInit \/ FilterInit

NextVideo == NextMask \/ NextFilter

SpecVideo == VideoInit /\ [][NextVideo]_vars

(* The three functions that take configuration values, each called once *)

CallInit == ScanInit \/ MaskInit \/ FilterInit

NextCall == NextScan \/ NextMask \/ NextFilter

SpecCalls == CallInit /\ [][NextCall]_vars

----------------------------------------------------------------------------
(* Claims about face_color_filter and mask_face_region *)

FilterWroteFrame == fn = "face_color_filter" /\ pc = "frame_end" /\ detected

MaskWroteFrame == fn = "mask_face_region" /\ pc = "frame_end" /\ detected

\* alpha * a + (1 - alpha) * b, truncated to an integer
AlphaBlendTrunc(a, b) ==
    (alpha.num * a + (alpha.den - alpha.num) * b) \div alpha.den

\* C4: every channel of every pixel of a written frame is
\* alpha * coloredCopy + (1 - alpha) * original, truncated, where coloredCopy
\* is the filter colour on the mask and the original elsewhere; pixels
\* outside the mask are written unchanged.
C4_AlphaComposite ==
    FilterWroteFrame =>
        \A p \in Positions :
           /\ masked_img[p] = IF p \in face_mask THEN SolidColor(filterColor)
                              ELSE frame0[p]
           /\ \A ch \in 1..3 :
                out_frame[p][ch] = AlphaBlendTrunc(masked_img[p][ch],
                                                   frame0[p][ch])
           /\ p \notin face_mask => out_frame[p] = frame0[p]

ValidMaskArgs ==
    /\ fn = "mask_face_region"
    /\ maskType \in {FACE_OVAL, FACE_SKIN_ISOLATION}
    /\ colorSpace \in {COLOR_SPACE_RGB, COLOR_SPACE_HSV, COLOR_SPACE_GRAYSCALE}

\* C5: a call of mask_face_region with valid arguments, with or without
\* extractColorInfo, raises no error; it works on one file at a time, in
\* list order, and it returns after the last file.
C5_ReturnsNormally ==
    ValidMaskArgs =>
        /\ pc \notin {"ValueError", "TypeError", "AttributeError"}
        /\ pc \in {"frames", "frame_end"} => file_idx < n_files
        /\ pc = "done" => file_idx = n_files

\* the composite is the face-skin one: always in face_color_filter, in the
\* FACE_SKIN_ISOLATION branch of mask_face_region
SkinCompositeBuilt ==
    /\ composite # NotComputed
    /\ \/ fn = "face_color_filter"
       \/ fn = "mask_face_region" /\ maskType = FACE_SKIN_ISOLATION

\* C6: the faceSkin mask is, pixel for pixel, the oval mask without the
\* pixels of the left eye, right eye and lips masks; it lies inside the
\* oval and has no pixel of an exclusion mask.
C6_SkinIsOvalMinusFeatures ==
    SkinCompositeBuilt =>
        /\ \A p \in Positions :
              p \in composite <=>
                 (p \in oval_mask /\ ~(p \in le_mask \/ p \in re_mask
                                        \/ p \in lip_mask))
        /\ composite \subseteq oval_mask
        /\ composite \cap (le_mask \cup re_mask \cup lip_mask) = {}

C6_Witness ==
    /\ SkinCompositeBuilt
    /\ fn = "mask_face_region"
    /\ le_mask \cap oval_mask # {}
    /\ re_mask \cap oval_mask # {}
    /\ lip_mask \cap oval_mask # {}
    /\ composite # {}

\* the region the sample is taken over
SampleRegion ==
    IF maskType = FACE_SKIN_ISOLATION
    THEN oval_mask \ (le_mask \cup re_mask \cup lip_mask)
    ELSE oval_mask

\* a pixel of the decoded frame in the channel order of the csv columns
ColumnsOf(px) ==
    CASE colorSpace = COLOR_SPACE_RGB -> <<px[3], px[2], px[1]>>
      [] colorSpace = COLOR_SPACE_HSV -> Hsv(px)
      [] colorSpace = COLOR_SPACE_GRAYSCALE -> <<Gray(px)>>

NumColumns == IF colorSpace = COLOR_SPACE_GRAYSCALE THEN 1 ELSE 3

RECURSIVE SumColumn(_, _)
SumColumn(region, col) ==
    IF region = {} THEN 0
    ELSE LET p == CHOOSE q \in region : TRUE
         IN ColumnsOf(frame0[p])[col] + SumColumn(region \ {p}, col)

SampleWritten ==
    MaskWroteFrame /\ extractColorInfo /\ SampleRegion # {}

\* C7: the sample written for a frame is, per column, the mean over the
\* pixels of the selected region of the decoded frame's values converted to
\* the colour space (printed with five decimals), in the order red, green,
\* blue / hue, saturation, value / value; for a one-pixel region it is that
\* pixel's value.
C7_SampleIsRegionMean ==
    SampleWritten =>
        /\ Len(sample) = NumColumns
        /\ \A col \in 1..NumColumns :
              sample[col] = RoundDiv(SumColumn(SampleRegion, col) * 100000,
                                     Cardinality(SampleRegion))
        /\ \A p \in Positions :
              SampleRegion = {p} =>
                 \A col \in 1..NumColumns :
                    sample[col] = ColumnsOf(frame0[p])[col] * 100000

\* a skin-isolation sample over two pixels of different colours, with the
\* eye and lip pixels zeroed in the frame and an artifact pixel cleaned
C7_Witness ==
    /\ SampleWritten
    /\ maskType = FACE_SKIN_ISOLATION
    /\ colorSpace = COLOR_SPACE_RGB
    /\ frame # frame0
    /\ out_frame # face_skin_raw
    /\ Cardinality(SampleRegion) = 2
    /\ \E p, q \in SampleRegion : frame0[p] # frame0[q]
    /\ sample[1] # sample[3]

\* C8: the cleaning step zeroes a pixel of the masked frame exactly when its
\* luma is in 220..255 and leaves every other pixel as it was; cleaning the
\* written frame again changes nothing.
C8_ArtifactCleaning ==
    MaskWroteFrame =>
        /\ \A p \in Positions :
              out_frame[p] =
                 IF Gray(face_skin_raw[p]) >= 220 /\ Gray(face_skin_raw[p]) <= 255
                 THEN Black ELSE face_skin_raw[p]
        /\ CleanArtifacts(out_frame) = out_frame

\* a masked frame holding a luma-220 pixel (zeroed) and a luma-219 pixel
\* (kept)
C8_Witness ==
    /\ MaskWroteFrame
    /\ \E p, q \in Positions :
          /\ Gray(face_skin_raw[p]) = 220
          /\ out_frame[p] = Black
          /\ Gray(face_skin_raw[q]) = 219
          /\ out_frame[q] = face_skin_raw[q]
          /\ out_frame[q] # Black

InvalidConfig ==
    \/ /\ fn = "mask_face_region"
       /\ \/ maskType \notin {FACE_OVAL, FACE_SKIN_ISOLATION}
          \/ colorSpace \notin {COLOR_SPACE_RGB, COLOR_SPACE_HSV,
                                COLOR_SPACE_GRAYSCALE}
    \/ /\ fn = "face_color_filter"
       /\ \/ ~(filterColor.type = "int" /\ filterColor.val \in {3, 4, 5})
          \/ alpha.num < 0
          \/ alpha.num > alpha.den
    \/ /\ scan_pc # "idle"
       /\ ~(\/ focusColor.type = "int" /\ focusColor.val \in {3, 4, 5}
            \/ focusColor.type = "str"
                 /\ Lower(focusColor.val) \in {"red", "green", "blue"})

\* C9: with an invalid maskType, colorSpace, focus or filter colour or alpha
\* no video is ever opened, no output directory created and no frame read,
\* and the call does not return normally: it is rejected with an error.
C9_InvalidConfigRejected ==
    InvalidConfig =>
        /\ vcapture = "none" /\ capture = "none"
        /\ ~dirs_created
        /\ n_read = 0 /\ frames_read = 0
        /\ pc # "done" /\ scan_pc # "done"

\* C10: filterColor 3 paints the mask pure red, 4 pure green and 5 pure
\* blue, as <<B, G, R>>.
C10_FilterColorCodes ==
    FilterWroteFrame =>
        \A p \in face_mask :
           /\ (filterColor = PyInt(3) => masked_img[p] = <<0, 0, 255>>)
           /\ (filterColor = PyInt(4) => masked_img[p] = <<0, 255, 0>>)
           /\ (filterColor = PyInt(5) => masked_img[p] = <<255, 0, 0>>)

----------------------------------------------------------------------------
(* Claims about regions, resources and the frames emitted *)

VerticesOf(pts) == {pts[k] : k \in 1..Len(pts)}

InFrame(pt) == pt[1] \in 0..(W - 1) /\ pt[2] \in 0..(H - 1)

\* fewer than 3 distinct vertices, or a vertex outside the frame
InvalidRegion(pts) ==
    \/ Cardinality(VerticesOf(pts)) < 3
    \/ \E pt \in VerticesOf(pts) : ~InFrame(pt)

\* C12: when the resolved vertex list of the face oval is degenerate or has
\* a coordinate outside the frame, building the mask fails with
\* InvalidRegionError and neither an output frame nor a sample row is
\* produced for the frame.
C12_InvalidRegionRejected ==
    (detected /\ InvalidRegion(face_outline_coords)) =>
        /\ pc = "InvalidRegionError"
        /\ out_frame = NoFrame
        /\ sample = <<>>

\* C13: once an operation no longer works on a video (it has moved on to
\* the next file, returned, or stopped with an error) none of the
\* resources opened for that video is still open.
C13_ResourcesReleased ==
    /\ pc \notin {"frames", "frame_end"} =>
          /\ vcapture # "open"
          /\ result # "open"
          /\ csv # "open"
    /\ scan_pc \notin {"loop"} => capture # "open"

\* C14: a video source that could not be opened is never handled like a
\* stream that ended normally: the operation neither moves on to the next
\* file nor returns, it stops with an error.
C14_UnreadableSourceIsError ==
    vcapture = "unopened" => pc \notin {"files", "done"}

\* the frames, numbered from 1 in source order, in which a face was found
FaceFrames(log) == {k \in 1..Len(log) : log[k]}

\* C15: in mask_face_region every frame read is answered once; the frames
\* written are exactly the frames read so far in which a face was found,
\* in source order; with extraction the csv holds the header row followed
\* by one row per written frame, and without it no row; the frame just
\* handled produced an output frame iff a face was found in it and a
\* sample iff moreover extraction is on.
C15_FrameEmission ==
    /\ Len(detections) = n_read
    /\ n_written = Len(result_frames)
    /\ n_written = Cardinality(FaceFrames(detections))
    /\ n_written <= n_read
    /\ {result_frames[k] : k \in 1..Len(result_frames)}
          = FaceFrames(detections)
    /\ \A j, k \in 1..Len(result_frames) :
          j < k => result_frames[j] < result_frames[k]
    /\ n_rows = Len(csv_rows)
    /\ (extractColorInfo /\ csv \in {"open", "closed"}) =>
          csv_rows = <<0>> \o result_frames
    /\ ~extractColorInfo => csv_rows = <<>>
    /\ pc = "frame_end" =>
          /\ detections[n_read] = detected
          /\ (out_frame # NoFrame) <=> detected
          /\ (sample # <<>>) <=> (detected /\ extractColorInfo)

\* a frame without a face, then one with a face, with extraction
C15_Witness ==
    /\ fn = "mask_face_region"
    /\ pc = "frame_end"
    /\ extractColorInfo
    /\ detections = <<FALSE, TRUE>>
    /\ result_frames = <<2>>
    /\ csv_rows = <<0, 2>>

\* C16: a frame written by mask_face_region is zero at every pixel outside
\* the selected region (the oval, without the eyes and lips for
\* FACE_SKIN_ISOLATION) and at every artifact-flagged pixel (luma in
\* 220..255), and equals the source frame at every other pixel.
C16_WrittenFrame ==
    MaskWroteFrame =>
        \A p \in Positions :
           out_frame[p] =
              IF p \notin SampleRegion \/ Gray(frame0[p]) \in 220..255
              THEN <<0, 0, 0>>
              ELSE frame0[p]

\* a non-black pixel outside the oval, an eye pixel inside it, a flagged
\* pixel of the region and a pixel that is kept
C16_Witness ==
    /\ MaskWroteFrame
    /\ maskType = FACE_SKIN_ISOLATION
    /\ \E p, q, r, t \in Positions :
          /\ p \notin oval_mask /\ frame0[p] # Black /\ out_frame[p] = Black
          /\ q \in oval_mask \cap le_mask /\ frame0[q] # Black
          /\ out_frame[q] = Black
          /\ r \in SampleRegion /\ Gray(frame0[r]) >= 220
          /\ out_frame[r] = Black
          /\ t \in SampleRegion /\ out_frame[t] = frame0[t]
          /\ frame0[t] # Black

====
